---- MODULE Spec2Model ----
(***************************************************************************)
(* A model of the core of the arachne dataflow runtime: the bounded Edge   *)
(* and its overflow policies (core/edge.py, core/policies.py), the         *)
(* priority-banded ready queue and the node processor                      *)
(* (core/priority_queue.py) and the Scheduler (core/scheduler.py).         *)
(*                                                                         *)
(* The module holds several specifications over one set of variables:      *)
(*   SpecEdge     one Edge driven by try_put / try_get                     *)
(*   SpecEdgeCap  SpecEdge plus Scheduler.set_capacity on that edge        *)
(*   SpecPQ       one PrioritySchedulingQueue driven by its callers        *)
(*   SpecPQFair   SpecPQ with callers that never stop calling              *)
(*   SpecRun      one Scheduler.run() with its nodes and a second thread   *)
(*   SpecRunFair  SpecRun with the run thread always making progress       *)
(*   SpecHandler  one node's handler invocations and the emits they make   *)
(*   SpecReadiness one node's readiness and priority from its input edges  *)
(*   SpecPQCount  the queue's callers' loop with the picks counted         *)
(* Each specification leaves the variables of the others at their initial  *)
(* values.                                                                 *)
(***************************************************************************)
EXTENDS Integers, Sequences, FiniteSets, TLC

VARIABLES
    \* ---- Edge (core/edge.py) ----
    q,              \* Edge._q, head first
    capacity,       \* Edge.capacity
    edge_spec,      \* schema of Edge.spec ("None" when the edge has no spec)
    enq_total,      \* value of the enqueued_total counter
    drops_total,    \* value of the drops_total counter
    put_result,     \* outcome of the last try_put (a PutResult or the exception raised)
    get_result,     \* value returned by the last try_get: <<>> for None, <<x>> for x
    edge_ops,       \* number of calls made on the edge so far
    cap_result,     \* outcome of the last set_capacity call
    put_log,        \* the try_put calls recorded on the edge: item, policy, fn, result
    get_log,        \* the items returned by the try_get calls recorded on the edge
    \* ---- the registered subgraphs and the callers of the Scheduler's API ----
    wiring,         \* the state of the registered subgraphs' edge lists
    extra_run,      \* what became of a run() called while an earlier call is inside run()
    reg_result,     \* outcome of the last register() call made since the scheduler was set up
    pending_priorities, \* Scheduler._pending_priorities: edge id -> band, or "none"
    knob_calls,     \* number of set_priority and set_capacity calls made so far
    knob_result,    \* how the last set_priority or set_capacity call ended: "returned",
                    \* "edge_not_found" (returned after that warning), or the exception
    \* ---- one handler invocation and its emit (core/priority_queue.py: NodeProcessor,
    \*      core/scheduler.py: _handle_node_emit) ----
    out_q,          \* per outgoing edge of the emitting port: Edge._q, head first
    out_spec,       \* per outgoing edge of the emitting port: schema of Edge.spec
    error_count,    \* NodeRef.error_count of the emitting node
    blocked_edges,  \* ready_state.blocked_edges of the emitting node
    tried,          \* the try_put calls of the last emit, in order: edge id and outcome
    hnd_calls,      \* number of handler invocations made so far
    hnd_result,     \* how the last process_node_messages / process_node_tick ended
    \* ---- one node of the plan and its input edges (core/runtime_plan.py) ----
    in_depth,       \* per input port of the node: depth of the edge that enters it
    in_band,        \* per input port of the node: EdgeRef.priority_band of that edge
    rp_ready,       \* ready_states[node].message_ready as update_readiness left it
    rp_priority,    \* value returned by the last get_node_priority(node), or "none"
    \* ---- the caller of the queue that counts what it is handed ----
    pick_skew,      \* per name: the picks of that name, less the picks of the queued
                    \* name picked least
    \* ---- PrioritySchedulingQueue (core/priority_queue.py) ----
    ready_queues,   \* PrioritySchedulingQueue._ready_queues: band -> sequence of node names
    fairness_ratio, \* PriorityQueueConfig.fairness_ratio
    pq_result,      \* outcome of the last get_next_runnable
    pq_head,        \* head of the Control queue when the last get_next_runnable was called
    pq_counts,      \* picks per band since the observation window was opened
    pq_calls,       \* number of get_next_runnable calls in the window
    pq_round,       \* parity of the rounds of the callers' loop made so far
    \* ---- Scheduler.run (core/scheduler.py, core/priority_queue.py: NodeProcessor) ----
    pc,             \* position of the thread executing run()
    running,        \* Scheduler._running
    shutdown,       \* Scheduler._shutdown
    registered,     \* names of the nodes of Scheduler._graphs, in registration order
    plan_nodes,     \* keys of RuntimePlan.nodes, in insertion order
    idx,            \* position of start_all_nodes / stop_all_nodes in its loop
    started,        \* nodes whose on_start has been invoked, in order of invocation
    stopped,        \* nodes whose on_stop has been invoked, in order of invocation
    hook_raised,    \* the lifecycle hooks (on_start, on_stop) that have raised so far
    tick_state,     \* per node, now - last_tick against tick_interval_ms: "no" (not
                    \* elapsed), "elapsed", or "stale" (elapsed, and the last on_tick
                    \* raised, which left last_tick as it was)
    inbox,          \* per node: depth of the node's input edge
    edge_band,      \* per node: EdgeRef.priority_band of the node's input edge
    edge_cap,       \* per node: capacity of the node's input edge
    sched_queue,    \* Scheduler._queue._ready_queues
    selected,       \* local node_name of the loop iteration: <<node>>, or <<>>
    ready_state,    \* local ready_state of the loop iteration: the selected node's
                    \* ReadyState as computed by update_readiness
    timed_out,      \* monotonic() - loop_start > shutdown_timeout_s
    loop_exit,      \* why the main loop was left: "none", "shutdown", "timeout"
    pending_exc,    \* an exception is propagating out of run()
    run_outcome     \* how run() ended: "none", "returned", "raised"

edge_vars == <<q, capacity, edge_spec, enq_total, drops_total, put_result, get_result, edge_ops, cap_result>>
pq_vars == <<ready_queues, fairness_ratio, pq_result, pq_head, pq_counts, pq_calls,
             pq_round>>
run_vars == <<pc, running, shutdown, registered, plan_nodes, idx, started, stopped,
              hook_raised, tick_state, inbox, sched_queue, selected, ready_state,
              timed_out, loop_exit, pending_exc, run_outcome, edge_band, edge_cap>>
log_vars == <<put_log, get_log>>
ctl_vars == <<wiring, extra_run, reg_result, pending_priorities, knob_calls, knob_result>>
hnd_vars == <<out_q, out_spec, error_count, blocked_edges, tried, hnd_calls, hnd_result>>
rp_vars == <<in_depth, in_band, rp_ready, rp_priority>>
obs_vars == <<pick_skew>>
vars == <<edge_vars, log_vars, pq_vars, run_vars, ctl_vars, hnd_vars, rp_vars, obs_vars>>

-----------------------------------------------------------------------------
(* Bounds of the model                                                     *)

MaxCap == 3         \* edge capacities range over 1..MaxCap
MaxItem == 2        \* payloads range over 0..MaxItem
MaxOps == 5         \* calls made on one edge
MaxRatio == 2       \* fairness weights range over 0..MaxRatio
MaxWindow == 4      \* longest window of consecutive servicings that is counted
MaxInbox == 1       \* capacity of the edges between the scheduler's nodes
MaxKnobCalls == 1   \* set_priority and set_capacity calls made on one scheduler

Items == 0 .. MaxItem
BadItem == MaxItem + 1   \* stands for a value that is no instance of the schema type
Policies == {"None", "Block", "Drop", "Latest", "Coalesce"}
MergeFns == {"add", "mix", "raise"}
Specs == {"None", "int"}

\* deque.pop() as used by Edge: the queue without its last item
Front_pops_head(s) == SubSeq(s, 2, Len(s))

Front(s) == SubSeq(s, 1, Len(s) - 1)

-----------------------------------------------------------------------------
(* core/policies.py                                                        *)

Block_on_enqueue_as_drop(cap, size, item) ==
    IF size >= cap THEN "DROPPED" ELSE "OK"

Block_on_enqueue(cap, size, item) ==
    IF size >= cap THEN "BLOCKED" ELSE "OK"

Drop_on_enqueue_as_block(cap, size, item) ==
    IF size >= cap THEN "BLOCKED" ELSE "OK"

Drop_on_enqueue(cap, size, item) ==
    IF size >= cap THEN "DROPPED" ELSE "OK"

Latest_on_enqueue_off_by_one(cap, size, item) ==
    IF size > cap THEN "REPLACED" ELSE "OK"

Latest_on_enqueue(cap, size, item) ==
    IF size >= cap THEN "REPLACED" ELSE "OK"

Coalesce_on_enqueue(cap, size, item) ==
    IF size >= cap THEN "COALESCED" ELSE "OK"

\* pol.on_enqueue(capacity, size, item), dispatched on the policy object
on_enqueue(pol, cap, size, item) ==
    CASE pol = "Block" -> Block_on_enqueue(cap, size, item)
      [] pol = "Drop" -> Drop_on_enqueue(cap, size, item)
      [] pol = "Latest" -> Latest_on_enqueue(cap, size, item)
      [] pol = "Coalesce" -> Coalesce_on_enqueue(cap, size, item)

-----------------------------------------------------------------------------
(* core/ports.py, core/edge.py                                             *)

\* core/message.py: a Message envelope is written as a number from MsgBase up, so
\* that it is no instance of the schema type (the raw values are 0 .. MaxItem,
\* and BadItem); the number carries the message's type and its payload
MessageTypes == <<"DATA", "CONTROL", "ERROR">>
MsgBase == BadItem + 1
TypeIndex(type) == CHOOSE i \in 1 .. Len(MessageTypes) : MessageTypes[i] = type
Message(type, payload) == MsgBase + Len(MessageTypes) * payload + (TypeIndex(type) - 1)
IsMessage(value) == value >= MsgBase
payload_of(msg) == (msg - MsgBase) \div Len(MessageTypes)
type_of(msg) == MessageTypes[((msg - MsgBase) % Len(MessageTypes)) + 1]

validate_accepts_everything(schema, value) == TRUE

\* PortSpec.validate: isinstance(value, schema), everything when schema is None
validate(schema, value) ==
    IF schema = "None" THEN TRUE ELSE value \in Items

\* The user's merge function of a Coalesce policy
merge(fn, old, new) ==
    IF fn = "add" THEN (old + new) % (MaxItem + 1)
    ELSE (2 * old + new) % (MaxItem + 1)

coalesce_swapped_args(queue, fn, new_item) ==
    IF queue # <<>>
    THEN IF fn = "raise"
         THEN [q |-> Front(queue), raised |-> TRUE]
         ELSE [q |-> Append(Front(queue), merge(fn, new_item, queue[Len(queue)])),
               raised |-> FALSE]
    ELSE [q |-> Append(queue, new_item), raised |-> FALSE]

\* Edge._coalesce: the queue after the call, and whether fn raised
coalesce(queue, fn, new_item) ==
    IF queue # <<>>
    THEN IF fn = "raise"
         THEN [q |-> Front(queue), raised |-> TRUE]
         ELSE [q |-> Append(Front(queue), merge(fn, queue[Len(queue)], new_item)),
               raised |-> FALSE]
    ELSE [q |-> Append(queue, new_item), raised |-> FALSE]

\* Edge.try_put: the queue after the call, the result (a PutResult, or the
\* exception that left the call) and the increments of the two counters
try_put(queue, cap, schema, item, policy, fn) ==
    IF schema # "None" /\ ~validate(schema, item)
    THEN [q |-> queue, res |-> "TypeError", enq |-> 0, drops |-> 0]
    ELSE LET pol == IF policy = "None" THEN "Latest" ELSE policy
             res == on_enqueue(pol, cap, Len(queue), item)
         IN  CASE res = "OK" ->
                    [q |-> Append(queue, item), res |-> res, enq |-> 1, drops |-> 0]
               [] res = "REPLACED" ->
                    [q |-> Append(IF queue # <<>> THEN Front(queue) ELSE queue, item),
                     res |-> res, enq |-> 1, drops |-> 0]
               [] res = "DROPPED" ->
                    [q |-> queue, res |-> res, enq |-> 0, drops |-> 1]
               [] res = "COALESCED" ->
                    LET c == coalesce(queue, fn, item)
                    IN  IF c.raised
                        THEN [q |-> c.q, res |-> "MergeError", enq |-> 0, drops |-> 0]
                        ELSE [q |-> c.q, res |-> res, enq |-> 1, drops |-> 0]
               [] OTHER ->
                    [q |-> queue, res |-> res, enq |-> 0, drops |-> 0]

try_get_from_tail(queue) ==
    IF queue = <<>>
    THEN [q |-> queue, item |-> <<>>]
    ELSE [q |-> Front(queue), item |-> <<queue[Len(queue)]>>]

\* Edge.try_get: the value returned (<<>> for None, <<x>> for x) and the queue
\* after the call
try_get(queue) ==
    IF queue = <<>>
    THEN [q |-> queue, item |-> <<>>]
    ELSE [q |-> Tail(queue), item |-> <<Head(queue)>>]

\* Edge.depth
depth == Len(q)

\* Scheduler.set_capacity on a running scheduler, for an edge of the plan
set_capacity(cap, n) ==
    IF n <= 0
    THEN [capacity |-> cap, res |-> "ValueError"]
    ELSE [capacity |-> n, res |-> "changed"]

-----------------------------------------------------------------------------
(* core/priority_queue.py: PrioritySchedulingQueue                         *)

CONTROL == "CONTROL"
HIGH == "HIGH"
NORMAL == "NORMAL"
Bands == {CONTROL, HIGH, NORMAL}
BandOrder == <<CONTROL, HIGH, NORMAL>>
Names == {"n1", "n2", "n3"}

\* The default of PriorityQueueConfig.fairness_ratio, and the other weights tried
DefaultRatio == <<4, 2, 1>>
Ratios == {DefaultRatio} \cup ((0 .. MaxRatio) \X (0 .. MaxRatio) \X (0 .. MaxRatio))

EmptyQueues == [b \in Bands |-> <<>>]

InSeq(x, s) == \E i \in 1 .. Len(s) : s[i] = x

\* deque.remove(x): drops the first occurrence of x
RECURSIVE remove(_, _)
remove(s, x) ==
    IF s = <<>> THEN <<>>
    ELSE IF Head(s) = x THEN Tail(s)
    ELSE <<Head(s)>> \o remove(Tail(s), x)

enqueue_runnable_append_only(rq, node_name, priority) ==
    [rq EXCEPT ![priority] = Append(rq[priority], node_name)]

\* PrioritySchedulingQueue.enqueue_runnable
enqueue_runnable(rq, node_name, priority) ==
    LET cleaned == [b \in Bands |-> IF InSeq(node_name, rq[b]) THEN remove(rq[b], node_name)
                                    ELSE rq[b]]
    IN  [cleaned EXCEPT ![priority] = Append(cleaned[priority], node_name)]

BandIndex(b) == CHOOSE i \in 1 .. 3 : BandOrder[i] = b

\* The first loop of get_next_runnable with a non-zero total: the band it returns
\* from, or "none" when it falls through to the fallback loop
ratio_pick_no_control_rule(rq, ratio, total_ratio, current_tick) ==
    LET passes(b) ==
            /\ rq[b] # <<>>
            /\ (current_tick % total_ratio) < ratio[BandIndex(b)]
    IN  IF passes(CONTROL) THEN CONTROL
        ELSE IF passes(HIGH) THEN HIGH
        ELSE IF passes(NORMAL) THEN NORMAL
        ELSE "none"

ratio_pick(rq, ratio, total_ratio, current_tick) ==
    LET passes(b) ==
            /\ rq[b] # <<>>
            /\ \/ (current_tick % total_ratio) < ratio[BandIndex(b)]
               \/ b = CONTROL
    IN  IF passes(CONTROL) THEN CONTROL
        ELSE IF passes(HIGH) THEN HIGH
        ELSE IF passes(NORMAL) THEN NORMAL
        ELSE "none"

\* The fallback loop of get_next_runnable: the first non-empty queue in the
\* insertion order of _ready_queues
fallback_pick(rq) ==
    IF rq[CONTROL] # <<>> THEN CONTROL
    ELSE IF rq[HIGH] # <<>> THEN HIGH
    ELSE IF rq[NORMAL] # <<>> THEN NORMAL
    ELSE "none"

get_next_runnable_pops_right(rq, ratio) ==
    LET total_ratio == ratio[1] + ratio[2] + ratio[3]
        current_tick == Len(rq[CONTROL]) + Len(rq[HIGH]) + Len(rq[NORMAL])
    IN  IF current_tick = 0
        THEN [res |-> <<"None">>, rq |-> rq]
        ELSE IF total_ratio = 0
        THEN [res |-> <<"ZeroDivisionError">>, rq |-> rq]
        ELSE LET first == ratio_pick(rq, ratio, total_ratio, current_tick)
                 band == IF first # "none" THEN first ELSE fallback_pick(rq)
             IN  [res |-> <<rq[band][Len(rq[band])], band>>,
                  rq |-> [rq EXCEPT ![band] = Front(rq[band])]]

\* PrioritySchedulingQueue.get_next_runnable: the value returned (<<name, band>>,
\* <<"None">>, or <<the exception that left the call>>) and the queues after it
get_next_runnable(rq, ratio) ==
    LET total_ratio == ratio[1] + ratio[2] + ratio[3]
        current_tick == Len(rq[CONTROL]) + Len(rq[HIGH]) + Len(rq[NORMAL])
    IN  IF current_tick = 0
        THEN [res |-> <<"None">>, rq |-> rq]
        ELSE IF total_ratio = 0
        THEN [res |-> <<"ZeroDivisionError">>, rq |-> rq]
        ELSE LET first == ratio_pick(rq, ratio, total_ratio, current_tick)
                 band == IF first # "none" THEN first ELSE fallback_pick(rq)
             IN  [res |-> <<Head(rq[band]), band>>,
                  rq |-> [rq EXCEPT ![band] = Tail(rq[band])]]

\* PrioritySchedulingQueue.has_runnable_nodes
has_runnable_nodes(rq) == \E b \in Bands : rq[b] # <<>>

-----------------------------------------------------------------------------
(* Initial values of the three groups of variables                         *)

EdgeIdle ==
    /\ q = <<>>
    /\ capacity = 1
    /\ edge_spec = "None"
    /\ enq_total = 0
    /\ drops_total = 0
    /\ put_result = "none"
    /\ get_result = <<>>
    /\ edge_ops = 0
    /\ cap_result = "none"
    /\ put_log = <<>>
    /\ get_log = <<>>

PQIdle ==
    /\ ready_queues = EmptyQueues
    /\ fairness_ratio = DefaultRatio
    /\ pq_result = <<"none">>
    /\ pq_head = <<>>
    /\ pq_counts = [b \in Bands |-> 0]
    /\ pq_calls = 0
    /\ pq_round = 0

-----------------------------------------------------------------------------
(* SpecEdge: an Edge as constructed by Subgraph.connect (capacity > 0),    *)
(* then any sequence of try_put and try_get calls                          *)

EdgeInit ==
    /\ q = <<>>
    /\ capacity \in 1 .. MaxCap
    /\ edge_spec \in Specs
    /\ enq_total = 0
    /\ drops_total = 0
    /\ put_result = "none"
    /\ get_result = <<>>
    /\ edge_ops = 0
    /\ cap_result = "none"
    /\ put_log = <<>>
    /\ get_log = <<>>

TryPut(item, policy, fn) ==
    /\ edge_ops < MaxOps
    /\ LET r == try_put(q, capacity, edge_spec, item, policy, fn)
       IN  /\ q' = r.q
           /\ put_result' = r.res
           /\ enq_total' = enq_total + r.enq
           /\ drops_total' = drops_total + r.drops
    /\ edge_ops' = edge_ops + 1
    /\ UNCHANGED <<capacity, edge_spec, get_result, cap_result>>

TryGet ==
    /\ edge_ops < MaxOps
    /\ LET r == try_get(q)
       IN  /\ q' = r.q
           /\ get_result' = r.item
    /\ edge_ops' = edge_ops + 1
    /\ UNCHANGED <<capacity, edge_spec, enq_total, drops_total, put_result, cap_result>>

\* Scheduler.set_capacity(edge_id, n), the scheduler running and the edge in its plan
SetCapacity(n) ==
    /\ edge_ops < MaxOps
    /\ LET r == set_capacity(capacity, n)
       IN  /\ capacity' = r.capacity
           /\ cap_result' = r.res
    /\ edge_ops' = edge_ops + 1
    /\ UNCHANGED <<q, edge_spec, enq_total, drops_total, put_result, get_result>>

EdgePut == \E item \in Items \cup {BadItem}, policy \in Policies, fn \in MergeFns :
              TryPut(item, policy, fn)
EdgeGet == TryGet
EdgeSetCapacity == \E n \in 0 .. MaxCap : SetCapacity(n)

\* The same calls, each recorded by the caller
LoggedPut(item, policy, fn) ==
    /\ TryPut(item, policy, fn)
    /\ put_log' = Append(put_log, [item |-> item, policy |-> policy, fn |-> fn,
                                   res |-> put_result'])
    /\ UNCHANGED get_log

LoggedGet ==
    /\ TryGet
    /\ get_log' = get_log \o get_result'
    /\ UNCHANGED put_log

\* A try_put of which the caller records only the calls that returned Ok
AcceptedPut(item, policy, fn) ==
    /\ TryPut(item, policy, fn)
    /\ put_log' = IF put_result' = "OK"
                  THEN Append(put_log, [item |-> item, policy |-> policy, fn |-> fn,
                                        res |-> put_result'])
                  ELSE put_log
    /\ UNCHANGED get_log

-----------------------------------------------------------------------------
(* SpecPQ: a PrioritySchedulingQueue and its callers. A caller enqueues a  *)
(* node, takes the next runnable, or services: takes the next runnable and *)
(* at once enqueues it again in its band.                                   *)

PQInit ==
    /\ ready_queues = EmptyQueues
    /\ fairness_ratio \in Ratios
    /\ pq_result = <<"none">>
    /\ pq_head = <<>>
    /\ pq_counts = [b \in Bands |-> 0]
    /\ pq_calls = 0
    /\ pq_round = 0

IsPick(res) == Len(res) = 2

ControlHead(rq) == IF rq[CONTROL] = <<>> THEN <<>> ELSE <<Head(rq[CONTROL])>>

AllBandsNonEmpty(rq) == \A b \in Bands : rq[b] # <<>>

PQEnqueue(node_name, priority) ==
    /\ ready_queues' = enqueue_runnable(ready_queues, node_name, priority)
    /\ pq_counts' = [b \in Bands |-> 0]
    /\ pq_calls' = 0
    /\ UNCHANGED pq_round
    /\ UNCHANGED <<fairness_ratio, pq_result, pq_head>>

PQGetNext ==
    /\ LET r == get_next_runnable(ready_queues, fairness_ratio)
       IN  /\ ready_queues' = r.rq
           /\ pq_result' = r.res
    /\ pq_head' = ControlHead(ready_queues)
    /\ pq_counts' = [b \in Bands |-> 0]
    /\ pq_calls' = 0
    /\ UNCHANGED pq_round
    /\ UNCHANGED fairness_ratio

\* One round of the callers' loop: nxt = q.get_next_runnable(), then
\* q.enqueue_runnable(name, band). The window counts the picks of consecutive
\* rounds that found all three bands non-empty; it restarts when it is full.
PQService ==
    LET r == get_next_runnable(ready_queues, fairness_ratio)
        counted == AllBandsNonEmpty(ready_queues)
        fresh == pq_calls >= MaxWindow
        base == IF fresh THEN [b \in Bands |-> 0] ELSE pq_counts
    IN  /\ pq_result' = r.res
        /\ pq_head' = ControlHead(ready_queues)
        /\ ready_queues' = IF IsPick(r.res)
                           THEN enqueue_runnable(r.rq, r.res[1], r.res[2])
                           ELSE r.rq
        /\ pq_counts' = IF ~counted THEN [b \in Bands |-> 0]
                        ELSE IF IsPick(r.res)
                        THEN [base EXCEPT ![r.res[2]] = @ + 1]
                        ELSE base
        /\ pq_calls' = IF ~counted THEN 0
                       ELSE IF fresh THEN 1 ELSE pq_calls + 1
        /\ pq_round' = 1 - pq_round
        /\ UNCHANGED fairness_ratio

\* The caller's Counter of the names it was handed, kept relative to the
\* least-picked of the queued names and cut off at MaxWindow
Queued(rq) == {n \in Names : \E b \in Bands : InSeq(n, rq[b])}
Least(S) == CHOOSE x \in S : \A y \in S : x <= y
CountPick ==
    pick_skew' =
        IF IsPick(pq_result')
        THEN LET inc == [pick_skew EXCEPT ![pq_result'[1]] = @ + 1]
                 low == Least({inc[n] : n \in Queued(ready_queues')})
             IN  [n \in Names |->
                     IF n \in Queued(ready_queues')
                     THEN IF inc[n] - low > MaxWindow THEN MaxWindow ELSE inc[n] - low
                     ELSE 0]
        ELSE pick_skew

ObsIdle == pick_skew = [n \in Names |-> 0]

PQEnqueueAny == \E n \in Names, b \in Bands : PQEnqueue(n, b)

-----------------------------------------------------------------------------
(* Scheduler.run and the NodeProcessor. The scheduler's nodes form a       *)
(* pipeline in registration order: each node has one output port, wired by *)
(* an edge of capacity MaxInbox to the input port of the node registered   *)
(* after it. Every hook of every node may return or raise. The metrics,    *)
(* the log lines and NodeRef.error_count are not part of this model.       *)

RunNodes == {"A", "B", "C"}
FairNodes == {"A", "B"}
Outcomes == {"ok", "raised"}
LoopPcs == {"poll", "iterate", "service"}

\* ReadyState() as constructed: nothing ready
NotReady == [message_ready |-> FALSE, tick_ready |-> FALSE]

\* Registrations of the nodes of S: every sequence of 1..|S| names, repeated
\* names included
RegOrders(S) == UNION {[1 .. k -> S] : k \in 1 .. Cardinality(S)}

Reverse(s) == [i \in 1 .. Len(s) |-> s[Len(s) + 1 - i]]

NodesOf(s) == {s[i] : i \in 1 .. Len(s)}

\* RuntimePlan.build_from_graphs, step 1: the nodes are inserted one by one and
\* the build fails at the first name that is already present
RECURSIVE insert_nodes(_, _)
insert_nodes(nodes, rest) ==
    IF rest = <<>> THEN [nodes |-> nodes, ok |-> TRUE]
    ELSE IF Head(rest) \in NodesOf(nodes) THEN [nodes |-> nodes, ok |-> FALSE]
    ELSE insert_nodes(Append(nodes, Head(rest)), Tail(rest))

\* An edge is named by the node it leads to: the id of the edge into node n is n
EdgeIds == RunNodes

\* The edges of a pipeline of nodes
edges_of(nodes) == {nodes[i] : i \in 2 .. Len(nodes)}

\* RuntimePlan.build_from_graphs, step 3: the band of each edge of the plan,
\* the pending priority where one was requested for its id
apply_pending(nodes, pending) ==
    [n \in RunNodes |-> IF n \in edges_of(nodes) /\ pending[n] # "none" THEN pending[n]
                        ELSE NORMAL]

\* What the edge lists of the registered subgraphs hold: sound edges, or one
\* structural error. Subgraph.connect itself refuses a capacity <= 0 and an
\* endpoint it cannot look up, but Subgraph.edges is a plain list and Edge
\* checks nothing, and connect appends a second edge with the same endpoints.
Wirings == {"ok", "dup_edge_id", "unknown_endpoint", "bad_capacity"}

\* RuntimePlan.build_from_graphs, step 2: the edges are registered, and a
\* structural error among them fails the build
link_edges_unchecked(w) == TRUE
link_edges(w) == w = "ok"

build_never_fails(graphs) == [nodes |-> insert_nodes(<<>>, graphs).nodes, ok |-> TRUE]

build_from_graphs(graphs) == insert_nodes(<<>>, graphs)

\* RuntimePlan.update_readiness
update_readiness(nodes, depths, ticks) ==
    [n \in RunNodes |->
        IF n \in NodesOf(nodes)
        THEN [message_ready |-> depths[n] > 0, tick_ready |-> ticks[n] # "no"]
        ELSE NotReady]

\* RuntimePlan.is_node_ready
is_node_ready(rdy, n) == rdy[n].message_ready \/ rdy[n].tick_ready

\* RuntimePlan.get_node_priority: the band of the node's input edge when that
\* edge holds a message, else Normal
get_node_priority(rdy, n) == IF rdy[n].message_ready THEN edge_band[n] ELSE NORMAL

\* PrioritySchedulingQueue.update_from_plan
RECURSIVE update_from_plan(_, _, _)
update_from_plan(rq, nodes, rdy) ==
    IF nodes = <<>> THEN rq
    ELSE update_from_plan(
            IF is_node_ready(rdy, Head(nodes))
            THEN enqueue_runnable(rq, Head(nodes), get_node_priority(rdy, Head(nodes)))
            ELSE rq,
            Tail(nodes), rdy)

\* The while condition of Scheduler._run_main_loop
loop_continues_ignoring_flag(flag) == TRUE

loop_continues(flag) == ~flag

\* The idle timeout of the main loop: taken when nothing is runnable and
\* monotonic() - loop_start > shutdown_timeout_s
idle_break_whenever_idle(late) == TRUE

idle_break(late) == late

\* The order in which NodeProcessor.stop_all_nodes visits the nodes
stop_order_forward(nodes) == nodes

stop_order(nodes) == Reverse(nodes)

\* The order in which NodeProcessor.start_all_nodes visits the nodes
start_order(nodes) == nodes

Position(nodes, n) == CHOOSE i \in 1 .. Len(nodes) : nodes[i] = n

\* The nodes reached by the edges leaving node n's output port
\* (RuntimePlan.get_outgoing_edges)
get_outgoing_edges(nodes, n) ==
    IF Position(nodes, n) < Len(nodes) THEN {nodes[Position(nodes, n) + 1]} ELSE {}

\* Scheduler._handle_node_emit on one edge: the depth of the edge after try_put
\* with the policy the scheduler picks (Block for Control, the default otherwise)
emit_depth(d, cap, kind) ==
    Len(try_put([i \in 1 .. d |-> 0], cap, "None", 0,
                IF kind = "CONTROL" THEN "Block" ELSE "None", "add").q)

\* No subgraph is registered
CallsIdle ==
    /\ extra_run = "none"
    /\ reg_result = "none"
    /\ pending_priorities = [e \in EdgeIds |-> "none"]
    /\ knob_calls = 0
    /\ knob_result = "none"

CtlIdle == wiring = "ok" /\ CallsIdle

\* The registered subgraphs carry any wiring
CtlInit == wiring \in Wirings /\ CallsIdle

RunInitWith(S) ==
    /\ pc = "idle"
    /\ running = FALSE
    /\ shutdown = FALSE
    /\ registered \in RegOrders(S)
    /\ plan_nodes = <<>>
    /\ idx = 0
    /\ started = <<>>
    /\ stopped = <<>>
    /\ hook_raised = {}
    /\ tick_state = [n \in RunNodes |-> "no"]
    /\ inbox = [n \in RunNodes |-> 0]
    /\ edge_band = [n \in RunNodes |-> NORMAL]
    /\ edge_cap = [n \in RunNodes |-> MaxInbox]
    /\ sched_queue = EmptyQueues
    /\ selected = <<>>
    /\ ready_state = NotReady
    /\ timed_out = FALSE
    /\ loop_exit = "none"
    /\ pending_exc = FALSE
    /\ run_outcome = "none"

\* run(), up to the try block
RunEnter ==
    /\ pc = "idle"
    /\ ~running
    /\ running' = TRUE
    /\ shutdown' = FALSE
    /\ pc' = "build"
    /\ UNCHANGED <<edge_band, edge_cap, registered, plan_nodes, idx, started, stopped, hook_raised, tick_state,
                   inbox, sched_queue, selected, ready_state, timed_out, loop_exit,
                   pending_exc, run_outcome>>

\* build_from_graphs and connect_nodes_to_scheduler; a failed build raises into
\* the finally block
Build ==
    /\ pc = "build"
    /\ LET r == build_from_graphs(registered)
           ok == r.ok /\ link_edges(wiring)
       IN  /\ plan_nodes' = r.nodes
           /\ edge_band' = IF ok THEN apply_pending(r.nodes, pending_priorities)
                           ELSE edge_band
           /\ pending_exc' = ~ok
           /\ pc' = IF ok THEN "start" ELSE "stop"
           /\ idx' = 1
    /\ UNCHANGED <<edge_cap, running, shutdown, registered, started, stopped, hook_raised,
                   tick_state, inbox, sched_queue, selected, ready_state, timed_out,
                   loop_exit, run_outcome>>

\* One round of the loop of start_all_nodes
StartNode(outcome) ==
    /\ pc = "start"
    /\ idx <= Len(plan_nodes)
    /\ started' = Append(started, start_order(plan_nodes)[idx])
    /\ hook_raised' = IF outcome = "raised" THEN hook_raised \cup {"on_start"}
                      ELSE hook_raised
    /\ idx' = idx + 1
    /\ pc' = IF idx = Len(plan_nodes) THEN "poll" ELSE "start"
    /\ UNCHANGED <<edge_band, edge_cap, running, shutdown, registered, plan_nodes, stopped, tick_state, inbox,
                   sched_queue, selected, ready_state, timed_out, loop_exit, pending_exc,
                   run_outcome>>

\* while not self._shutdown
Poll ==
    /\ pc = "poll"
    /\ IF loop_continues(shutdown)
       THEN /\ pc' = "iterate"
            /\ UNCHANGED <<loop_exit, idx>>
       ELSE /\ pc' = "stop"
            /\ loop_exit' = "shutdown"
            /\ idx' = 1
    /\ UNCHANGED <<edge_band, edge_cap, running, shutdown, registered, plan_nodes, started, stopped,
                   hook_raised, tick_state, inbox, sched_queue, selected, ready_state,
                   timed_out, pending_exc, run_outcome>>

\* The first half of a loop iteration: update_readiness, update_from_plan and
\* get_next_runnable; with nothing runnable, the timeout check and the idle sleep
Iterate ==
    /\ pc = "iterate"
    /\ LET rdy == update_readiness(plan_nodes, inbox, tick_state)
           rq == update_from_plan(sched_queue, plan_nodes, rdy)
           r == get_next_runnable(rq, DefaultRatio)
       IN  /\ sched_queue' = r.rq
           /\ IF IsPick(r.res)
              THEN /\ selected' = <<r.res[1]>>
                   /\ ready_state' = rdy[r.res[1]]
                   /\ pc' = "service"
                   /\ UNCHANGED <<loop_exit, idx>>
              ELSE /\ UNCHANGED <<selected, ready_state>>
                   /\ IF idle_break(timed_out)
                      THEN /\ pc' = "stop"
                           /\ loop_exit' = "timeout"
                           /\ idx' = 1
                      ELSE /\ pc' = "poll"
                           /\ UNCHANGED <<loop_exit, idx>>
    /\ UNCHANGED <<edge_band, edge_cap, running, shutdown, registered, plan_nodes, started, stopped,
                   hook_raised, tick_state, inbox, timed_out, pending_exc, run_outcome>>

\* The second half of a loop iteration: process_node_messages when the node is
\* message-ready, else process_node_tick when it is tick-ready. The handler
\* returns or raises, and before that emits a message on its output port or not.
\* An emit that reaches an edge leaves the handler by an exception too:
\* _handle_node_emit reads edge._edge_id() right after try_put, and Edge has no
\* such attribute.
Service(outcome, emits, kind) ==
    /\ pc = "service"
    /\ LET n == selected[1]
           targets == IF emits THEN get_outgoing_edges(plan_nodes, n) ELSE {}
           raises == outcome = "raised" \/ targets # {}
           got == IF ready_state.message_ready /\ inbox[n] > 0 THEN 1 ELSE 0
           drained == [inbox EXCEPT ![n] = @ - got]
           ticks == ~ready_state.message_ready /\ ready_state.tick_ready
       IN  /\ inbox' = [m \in RunNodes |->
                            IF m \in targets THEN emit_depth(drained[m], edge_cap[m], kind)
                            ELSE drained[m]]
           /\ tick_state' = IF ticks
                            THEN [tick_state EXCEPT ![n] =
                                     IF raises THEN "stale" ELSE "no"]
                            ELSE tick_state
    /\ pc' = "poll"
    /\ selected' = <<>>
    /\ ready_state' = NotReady
    /\ UNCHANGED <<edge_band, edge_cap, running, shutdown, registered, plan_nodes, idx, started, stopped,
                   hook_raised, sched_queue, timed_out, loop_exit, pending_exc,
                   run_outcome>>

\* One round of the loop of stop_all_nodes, in the finally block of run()
StopNode(outcome) ==
    /\ pc = "stop"
    /\ idx <= Len(plan_nodes)
    /\ stopped' = Append(stopped, stop_order(plan_nodes)[idx])
    /\ hook_raised' = IF outcome = "raised" THEN hook_raised \cup {"on_stop"}
                      ELSE hook_raised
    /\ idx' = idx + 1
    /\ UNCHANGED <<edge_band, edge_cap, pc, running, shutdown, registered, plan_nodes, started, tick_state,
                   inbox, sched_queue, selected, ready_state, timed_out, loop_exit,
                   pending_exc, run_outcome>>

\* The end of the finally block: self._running = False, then run() returns or
\* the pending exception leaves it
RunExit ==
    /\ pc = "stop"
    /\ idx > Len(plan_nodes)
    /\ running' = FALSE
    /\ run_outcome' = IF pending_exc THEN "raised" ELSE "returned"
    /\ pc' = "done"
    /\ UNCHANGED <<edge_band, edge_cap, shutdown, registered, plan_nodes, idx, started, stopped, hook_raised,
                   tick_state, inbox, sched_queue, selected, ready_state, timed_out,
                   loop_exit, pending_exc>>

\* Scheduler.shutdown, called from another thread at any time
Shutdown ==
    /\ pc # "done"
    /\ ~shutdown
    /\ shutdown' = TRUE
    /\ UNCHANGED <<edge_band, edge_cap, pc, running, registered, plan_nodes, idx, started, stopped,
                   hook_raised, tick_state, inbox, sched_queue, selected, ready_state,
                   timed_out, loop_exit, pending_exc, run_outcome>>

\* Time passes: tick_interval_ms has elapsed since node n's last tick
IntervalElapses(n) ==
    /\ pc \in LoopPcs
    /\ n \in NodesOf(plan_nodes)
    /\ tick_state[n] = "no"
    /\ tick_state' = [tick_state EXCEPT ![n] = "elapsed"]
    /\ UNCHANGED <<edge_band, edge_cap, pc, running, shutdown, registered, plan_nodes, idx, started, stopped,
                   hook_raised, inbox, sched_queue, selected, ready_state, timed_out,
                   loop_exit, pending_exc, run_outcome>>

\* Time passes: shutdown_timeout_s has elapsed since the main loop started
TimeoutElapses ==
    /\ pc \in LoopPcs
    /\ ~timed_out
    /\ timed_out' = TRUE
    /\ UNCHANGED <<edge_band, edge_cap, pc, running, shutdown, registered, plan_nodes, idx, started, stopped,
                   hook_raised, tick_state, inbox, sched_queue, selected, ready_state,
                   loop_exit, pending_exc, run_outcome>>

\* The test at the entry of run(): if self._running: return
run_ignores_running_flag(flag) == FALSE
run_returns_at_once(flag) == flag

\* run() called again, from the thread of a handler or from another thread,
\* while an earlier call is inside run(): it returns at once, or passes the
\* test and sets the two flags on its way into the try block
RunAgain ==
    /\ pc \notin {"idle", "done"}
    /\ IF run_returns_at_once(running)
       THEN /\ extra_run' = "returned"
            /\ UNCHANGED <<running, shutdown>>
       ELSE /\ extra_run' = "entered"
            /\ running' = TRUE
            /\ shutdown' = FALSE
    /\ UNCHANGED <<edge_band, edge_cap, pc, registered, plan_nodes, idx, started, stopped, hook_raised,
                   tick_state, inbox, sched_queue, selected, ready_state, timed_out,
                   loop_exit, pending_exc, run_outcome, wiring>>

\* The keys of RuntimePlan.edges: empty until the build has registered the
\* edges, and a build that failed is taken to have registered none
plan_edges ==
    IF pc \in {"idle", "build"} \/ pending_exc THEN {} ELSE edges_of(plan_nodes)

\* The test of the runtime mutators: edge_id in self._plan.edges
edge_known_always(e, edges) == TRUE
edge_known(e, edges) == e \in edges

\* Scheduler.set_priority(edge_id, band) at any time, band a PriorityBand
SchedSetPriority(e, band) ==
    /\ knob_calls < MaxKnobCalls
    /\ knob_calls' = knob_calls + 1
    /\ IF running
       THEN /\ IF edge_known(e, plan_edges)
               THEN /\ edge_band' = [edge_band EXCEPT ![e] = band]
                    /\ knob_result' = "returned"
               ELSE /\ knob_result' = "edge_not_found"
                    /\ UNCHANGED edge_band
            /\ UNCHANGED pending_priorities
       ELSE /\ pending_priorities' = [pending_priorities EXCEPT ![e] = band]
            /\ knob_result' = "returned"
            /\ UNCHANGED edge_band
    /\ UNCHANGED <<edge_cap, pc, running, shutdown, registered, plan_nodes, idx, started,
                   stopped, hook_raised, tick_state, inbox, sched_queue, selected,
                   ready_state, timed_out, loop_exit, pending_exc, run_outcome, wiring>>

\* Scheduler.set_capacity(edge_id, n) at any time
SchedSetCapacity(e, n) ==
    /\ knob_calls < MaxKnobCalls
    /\ knob_calls' = knob_calls + 1
    /\ IF n <= 0
       THEN /\ knob_result' = "ValueError"
            /\ UNCHANGED edge_cap
       ELSE IF running
       THEN IF edge_known(e, plan_edges)
            THEN /\ edge_cap' = [edge_cap EXCEPT ![e] = set_capacity(edge_cap[e], n).capacity]
                 /\ knob_result' = "returned"
            ELSE /\ knob_result' = "edge_not_found"
                 /\ UNCHANGED edge_cap
       ELSE /\ knob_result' = "returned"
            /\ UNCHANGED edge_cap
    /\ UNCHANGED <<edge_band, pending_priorities, pc, running, shutdown,
                   registered, plan_nodes, idx, started, stopped, hook_raised, tick_state,
                   inbox, sched_queue, selected, ready_state, timed_out, loop_exit,
                   pending_exc, run_outcome, wiring>>

\* The bands asked for are those that differ from the default
RequestBands == {CONTROL, HIGH}

SetPriorityAny == \E e \in FairNodes, band \in RequestBands : SchedSetPriority(e, band)
SetCapacityAny == \E e \in FairNodes, n \in 0 .. MaxInbox : SchedSetCapacity(e, n)

\* The nodes whose scheduler back-reference is set: connect_nodes_to_scheduler
\* sets it on every node of the plan once the build has succeeded, and nothing
\* in run(), in stop_all_nodes or in Node sets it back to None
attached ==
    IF pc \in {"idle", "build"} \/ pending_exc THEN {} ELSE NodesOf(plan_nodes)

\* Node.emit(port, msg) on node n's output port, called at any time from outside
\* the node's handlers: with the back-reference set, _handle_node_emit puts the
\* message on the edge that leaves the port
NodeEmit(n, kind) ==
    /\ n \in NodesOf(registered)
    /\ LET targets == IF n \in attached THEN get_outgoing_edges(plan_nodes, n) ELSE {}
       IN  inbox' = [m \in RunNodes |->
                        IF m \in targets THEN emit_depth(inbox[m], edge_cap[m], kind)
                        ELSE inbox[m]]
    /\ UNCHANGED <<edge_band, edge_cap, pc, running, shutdown, registered, plan_nodes, idx,
                   started, stopped, hook_raised, tick_state, sched_queue, selected,
                   ready_state, timed_out, loop_exit, pending_exc, run_outcome>>

NodeEmitAny == \E n \in FairNodes, k \in {"DATA", "CONTROL"} : NodeEmit(n, k)

\* The test at the entry of register(): if self._running: raise RuntimeError
register_never_refused(flag) == FALSE
register_refused(flag) == flag

\* Scheduler.register(node) at any time: refused while the scheduler is
\* running, else the node's single-node subgraph is appended to the graphs
Register(n) ==
    /\ IF register_refused(running)
       THEN /\ reg_result' = "RuntimeError"
            /\ UNCHANGED registered
       ELSE /\ Len(registered) < Cardinality(RunNodes)
            /\ reg_result' = "ok"
            /\ registered' = Append(registered, n)
    /\ UNCHANGED <<edge_band, edge_cap, pc, running, shutdown, plan_nodes, idx, started, stopped, hook_raised,
                   tick_state, inbox, sched_queue, selected, ready_state, timed_out,
                   loop_exit, pending_exc, run_outcome, wiring>>

RegisterAny == \E n \in FairNodes : Register(n)

StartAny == \E o \in Outcomes : StartNode(o)
ServiceAny == \E o \in Outcomes, e \in BOOLEAN, k \in {"DATA", "CONTROL"} : Service(o, e, k)
StopAny == \E o \in Outcomes : StopNode(o)
IntervalElapsesAny == \E n \in RunNodes : IntervalElapses(n)

\* The steps of the thread that executes run()
RunThread ==
    RunEnter \/ Build \/ StartAny \/ Poll \/ Iterate \/ ServiceAny \/ StopAny \/ RunExit

-----------------------------------------------------------------------------
(* One node's handler invocations and the emit made inside them            *)

\* The edges that leave the emitting port, in the order of the plan
OutEdges == <<"e1", "e2">>
OutEdgeIds == {OutEdges[i] : i \in 1 .. Len(OutEdges)}
Payloads == Items \cup {BadItem}

\* Scheduler._handle_node_emit picks the policy from the message's type
emit_policy_all_default(type) == "None"
emit_policy(type) == IF type = "CONTROL" THEN "Block" ELSE "None"

\* Edge defines no _edge_id, which _handle_node_emit calls after every try_put
edge_has_edge_id == FALSE

\* Scheduler._handle_node_emit: the loop over the outgoing edges, from the i-th
\* on. The queues after the call, the try_put calls made, and the exception
\* that left the call ("none" when it returned)
RECURSIVE handle_node_emit(_, _, _, _)
handle_node_emit(qs, specs, msg, i) ==
    IF i > Len(OutEdges)
    THEN [qs |-> qs, tried |-> <<>>, raised |-> "none"]
    ELSE LET e == OutEdges[i]
             r == try_put(qs[e], MaxInbox, specs[e], msg, emit_policy(type_of(msg)), "add")
             here == <<[edge |-> e, res |-> r.res]>>
             qs1 == [qs EXCEPT ![e] = r.q]
         IN  IF r.res = "TypeError"
             THEN [qs |-> qs1, tried |-> here, raised |-> "TypeError"]
             ELSE IF ~edge_has_edge_id
                  THEN [qs |-> qs1, tried |-> here, raised |-> "AttributeError"]
                  ELSE LET rest == handle_node_emit(qs1, specs, msg, i + 1)
                       IN  [qs |-> rest.qs, tried |-> here \o rest.tried,
                            raised |-> rest.raised]

\* except Exception: node_ref.error_count += 1
charge_nothing(count) == count
charge(count) == count + 1

\* PriorityQueueProcessor.process_node_messages with one message waiting on the
\* node's input, or process_node_tick: the handler runs, emits msg on its
\* output port or not, and returns or raises on its own. An exception that
\* leaves emit leaves the handler; the processor catches it, charges the node
\* and returns False to the main loop.
ProcessNode(emits, msg, outcome) ==
    /\ hnd_calls < MaxOps
    /\ LET r == IF emits THEN handle_node_emit(out_q, out_spec, msg, 1)
                ELSE [qs |-> out_q, tried |-> <<>>, raised |-> "none"]
           raised == r.raised # "none" \/ outcome = "raised"
       IN  /\ out_q' = r.qs
           /\ tried' = r.tried
           /\ error_count' = IF raised THEN charge(error_count) ELSE error_count
           /\ hnd_result' = IF raised THEN "False" ELSE "True"
    /\ hnd_calls' = hnd_calls + 1
    /\ UNCHANGED <<out_spec, blocked_edges>>

\* The consumer at the end of an outgoing edge takes a message from it
OutEdgeGet(e) ==
    /\ out_q[e] # <<>>
    /\ out_q' = [out_q EXCEPT ![e] = try_get(@).q]
    /\ UNCHANGED <<out_spec, error_count, blocked_edges, tried, hnd_calls, hnd_result>>

ProcessNodeAny ==
    \E emits \in BOOLEAN, type \in {"DATA", "CONTROL", "ERROR"}, payload \in Payloads,
       outcome \in Outcomes : ProcessNode(emits, Message(type, payload), outcome)
OutEdgeGetAny == \E e \in OutEdgeIds : OutEdgeGet(e)

HndIdle ==
    /\ out_q = [e \in OutEdgeIds |-> <<>>]
    /\ out_spec = [e \in OutEdgeIds |-> "None"]
    /\ error_count = 0
    /\ blocked_edges = {}
    /\ tried = <<>>
    /\ hnd_calls = 0
    /\ hnd_result = "none"

HndInit ==
    /\ out_q = [e \in OutEdgeIds |-> <<>>]
    /\ out_spec \in [OutEdgeIds -> Specs]
    /\ error_count = 0
    /\ blocked_edges = {}
    /\ tried = <<>>
    /\ hnd_calls = 0
    /\ hnd_result = "none"

-----------------------------------------------------------------------------
(* One node of the plan and its input edges (core/runtime_plan.py)         *)

InPorts == {"i", "i2"}

\* The highest of a set of bands: Control > High > Normal
max_band(S) == IF CONTROL \in S THEN CONTROL ELSE IF HIGH \in S THEN HIGH ELSE NORMAL

\* RuntimePlan.update_readiness: message_ready of a node with these inputs
message_ready(depths) == \E p \in InPorts : depths[p] > 0

\* RuntimePlan.get_node_priority of a node with several input edges
effective_band_of_all_inputs(ready, depths, bands) ==
    IF ready THEN max_band({bands[p] : p \in InPorts}) ELSE NORMAL
effective_band(ready, depths, bands) ==
    IF ready THEN max_band({bands[p] : p \in {x \in InPorts : depths[x] > 0}}) ELSE NORMAL

InputPut(p) ==
    /\ in_depth[p] < MaxInbox
    /\ in_depth' = [in_depth EXCEPT ![p] = @ + 1]
    /\ UNCHANGED <<in_band, rp_ready, rp_priority>>

InputGet(p) ==
    /\ in_depth[p] > 0
    /\ in_depth' = [in_depth EXCEPT ![p] = @ - 1]
    /\ UNCHANGED <<in_band, rp_ready, rp_priority>>

\* RuntimePlan.set_edge_priority on the edge that enters port p
SetEdgePriority(p, band) ==
    /\ in_band' = [in_band EXCEPT ![p] = band]
    /\ UNCHANGED <<in_depth, rp_ready, rp_priority>>

UpdateReadiness ==
    /\ rp_ready' = message_ready(in_depth)
    /\ UNCHANGED <<in_depth, in_band, rp_priority>>

GetNodePriority ==
    /\ rp_priority' = effective_band(rp_ready, in_depth, in_band)
    /\ UNCHANGED <<in_depth, in_band, rp_ready>>

InputPutAny == \E p \in InPorts : InputPut(p)
InputGetAny == \E p \in InPorts : InputGet(p)
SetEdgePriorityAny == \E p \in InPorts, band \in Bands : SetEdgePriority(p, band)

RpIdle ==
    /\ in_depth = [p \in InPorts |-> 0]
    /\ in_band = [p \in InPorts |-> NORMAL]
    /\ rp_ready = FALSE
    /\ rp_priority = "none"

-----------------------------------------------------------------------------
(* The specifications                                                      *)

RunIdle ==
    /\ pc = "idle"
    /\ running = FALSE
    /\ shutdown = FALSE
    /\ registered = <<>>
    /\ plan_nodes = <<>>
    /\ idx = 0
    /\ started = <<>>
    /\ stopped = <<>>
    /\ hook_raised = {}
    /\ tick_state = <<>>
    /\ inbox = <<>>
    /\ edge_band = <<>>
    /\ edge_cap = <<>>
    /\ sched_queue = EmptyQueues
    /\ selected = <<>>
    /\ ready_state = NotReady
    /\ timed_out = FALSE
    /\ loop_exit = "none"
    /\ pending_exc = FALSE
    /\ run_outcome = "none"
    /\ CtlIdle

other_than_edge == <<log_vars, pq_vars, run_vars, ctl_vars, hnd_vars, rp_vars, obs_vars>>
other_than_pq == <<edge_vars, log_vars, run_vars, ctl_vars, hnd_vars, rp_vars, obs_vars>>
other_than_run == <<edge_vars, log_vars, pq_vars, ctl_vars, hnd_vars, rp_vars, obs_vars>>
other_than_hnd == <<edge_vars, log_vars, pq_vars, run_vars, ctl_vars, rp_vars, obs_vars>>
other_than_rp == <<edge_vars, log_vars, pq_vars, run_vars, ctl_vars, hnd_vars, obs_vars>>

InitEdge == EdgeInit /\ PQIdle /\ RunIdle /\ HndIdle /\ RpIdle /\ ObsIdle
EdgeNext ==
    \/ EdgePut /\ UNCHANGED other_than_edge
    \/ EdgeGet /\ UNCHANGED other_than_edge
SpecEdge == InitEdge /\ [][EdgeNext]_vars

EdgeCapNext ==
    \/ EdgePut /\ UNCHANGED other_than_edge
    \/ EdgeGet /\ UNCHANGED other_than_edge
    \/ EdgeSetCapacity /\ UNCHANGED other_than_edge
SpecEdgeCap == InitEdge /\ [][EdgeCapNext]_vars

\* An Edge holding any queue that fits its capacity, reached by MaxOps - 1
\* earlier calls (try_get calls on the empty edge, then one accepted try_put
\* per item), about to receive one more call
QueuesUpTo(n) == UNION {[1 .. k -> Items] : k \in 0 .. n}

EdgeStepInit ==
    /\ capacity \in 1 .. MaxCap
    /\ q \in QueuesUpTo(capacity)
    /\ edge_spec \in Specs
    /\ enq_total = Len(q)
    /\ drops_total = 0
    /\ put_result = IF q = <<>> THEN "none" ELSE "OK"
    /\ get_result = <<>>
    /\ edge_ops = MaxOps - 1
    /\ cap_result = "none"
    /\ put_log = <<>>
    /\ get_log = <<>>

InitEdgeStep == EdgeStepInit /\ PQIdle /\ RunIdle /\ HndIdle /\ RpIdle /\ ObsIdle
SpecEdgeStep == InitEdgeStep /\ [][EdgeNext]_vars

\* An Edge that receives a stream of puts under Coalesce(fn), fn a merge
\* function that returns, the same for the whole stream
CoalescePut ==
    \E item \in Items, fn \in MergeFns \ {"raise"} :
        /\ put_log # <<>> => fn = put_log[1].fn
        /\ LoggedPut(item, "Coalesce", fn)

EdgeFoldNext == CoalescePut /\ UNCHANGED <<pq_vars, run_vars, ctl_vars, hnd_vars, rp_vars, obs_vars>>
SpecEdgeFold == InitEdge /\ [][EdgeFoldNext]_vars

\* An Edge that only receives puts under Block and Drop, and gets
BlockDropPut == \E item \in Items, policy \in {"Block", "Drop"} : AcceptedPut(item, policy, "add")

EdgeFifoNext ==
    \/ BlockDropPut /\ UNCHANGED <<pq_vars, run_vars, ctl_vars, hnd_vars, rp_vars, obs_vars>>
    \/ LoggedGet /\ UNCHANGED <<pq_vars, run_vars, ctl_vars, hnd_vars, rp_vars, obs_vars>>
SpecEdgeFifo == InitEdge /\ [][EdgeFifoNext]_vars

\* An Edge that receives one more call, a try_put of a Message or a try_get
MessagePut ==
    \E type \in {"DATA", "CONTROL", "ERROR"}, payload \in Items \cup {BadItem},
       policy \in Policies \ {"Coalesce"} :
        TryPut(Message(type, payload), policy, "add")

EdgeMsgNext ==
    \/ MessagePut /\ UNCHANGED other_than_edge
    \/ EdgeGet /\ UNCHANGED other_than_edge
SpecEdgeMsg == InitEdgeStep /\ [][EdgeMsgNext]_vars

\* One edge of a running graph, between the producer's emit and the consumer's
\* on_message.  put_log holds the messages the producer emitted on the edge, in
\* order, get_log the envelopes handed to on_message.

\* What _handle_node_emit raises to the emitting node: the TypeError of try_put,
\* else the AttributeError of edge._edge_id(), an attribute Edge does not have
emit_raises(result) == IF result = "TypeError" THEN "TypeError" ELSE "AttributeError"

\* Node.emit(port, msg) of a node attached to the scheduler, on one outgoing
\* edge; the messages of one producer are told apart by their emission number
HandleNodeEmit(type) ==
    LET msg == Message(type, Len(put_log))
    IN  /\ TryPut(msg, emit_policy(type), "add")
        /\ put_log' = Append(put_log, [item |-> msg, policy |-> emit_policy(type),
                                       res |-> put_result',
                                       raised |-> emit_raises(put_result')])
        /\ UNCHANGED get_log

\* The envelope process_node_messages builds around a dequeued item
wrap(band, item) == Message(IF band = "CONTROL" THEN "CONTROL" ELSE "DATA", item)

\* PriorityQueueProcessor.process_node_messages for the consumer, on this edge,
\* whose reference has the priority band `band`: one try_get, and on_message
\* with the wrapped item when there was one
ProcessNodeMessages(band) ==
    /\ TryGet
    /\ get_log' = IF get_result' = <<>> THEN get_log
                  ELSE Append(get_log, wrap(band, get_result'[1]))
    /\ UNCHANGED put_log

EmitAny == \E type \in {"DATA", "CONTROL", "ERROR"} : HandleNodeEmit(type)
DeliverAny == \E band \in {"DATA", "CONTROL"} : ProcessNodeMessages(band)

EdgeEmitNext ==
    \/ EmitAny /\ UNCHANGED <<pq_vars, run_vars, ctl_vars, hnd_vars, rp_vars, obs_vars>>
    \/ DeliverAny /\ UNCHANGED <<pq_vars, run_vars, ctl_vars, hnd_vars, rp_vars, obs_vars>>
SpecEdgeEmit == InitEdge /\ [][EdgeEmitNext]_vars

\* The same edge with the consumer serviced as the main loop does it:
\* process_node_messages is called only for a message-ready node, one whose
\* input edge is not empty, and a message-ready consumer is serviced in the
\* end. Only the producer's emissions are counted in edge_ops here, so that the
\* consumer can always drain the edge.
ServiceMessageReady(band) ==
    /\ q # <<>>
    /\ LET r == try_get(q)
       IN  /\ q' = r.q
           /\ get_result' = r.item
           /\ get_log' = Append(get_log, wrap(band, r.item[1]))
    /\ UNCHANGED <<capacity, edge_spec, enq_total, drops_total, put_result, edge_ops,
                   cap_result, put_log>>

ServiceConsumer == \E band \in {"DATA", "CONTROL"} : ServiceMessageReady(band)

\* A loop iteration that finds the consumer's edge empty: nothing is runnable,
\* the loop sleeps and goes round again
IdleIteration ==
    /\ q = <<>>
    /\ pq_round' = 1 - pq_round
    /\ UNCHANGED <<edge_vars, log_vars, ready_queues, fairness_ratio, pq_result, pq_head,
                   pq_counts, pq_calls>>

EdgeEmitFairNext ==
    \/ EmitAny /\ UNCHANGED <<pq_vars, run_vars, ctl_vars, hnd_vars, rp_vars, obs_vars>>
    \/ ServiceConsumer /\ UNCHANGED <<pq_vars, run_vars, ctl_vars, hnd_vars, rp_vars, obs_vars>>
    \/ IdleIteration /\ UNCHANGED <<run_vars, ctl_vars, hnd_vars, rp_vars, obs_vars>>
SpecEdgeEmitFair ==
    /\ InitEdge
    /\ [][EdgeEmitFairNext]_vars
    /\ WF_vars(ServiceConsumer /\ UNCHANGED <<pq_vars, run_vars, ctl_vars, hnd_vars, rp_vars, obs_vars>>)
    /\ WF_vars(IdleIteration /\ UNCHANGED <<run_vars, ctl_vars, hnd_vars, rp_vars, obs_vars>>)

InitPQ == PQInit /\ EdgeIdle /\ RunIdle /\ HndIdle /\ RpIdle /\ ObsIdle
PQNext ==
    \/ PQEnqueueAny /\ UNCHANGED other_than_pq
    \/ PQGetNext /\ UNCHANGED other_than_pq
    \/ PQService /\ UNCHANGED other_than_pq
SpecPQ == InitPQ /\ [][PQNext]_vars

\* Every arrangement of the names in the band queues that enqueue_runnable can
\* produce (no name twice), then callers that never stop servicing
SeqsOf(S) == UNION {[1 .. k -> S] : k \in 0 .. Cardinality(S)}
NoRepeat(sq) == \A i, j \in 1 .. Len(sq) : i # j => sq[i] # sq[j]
Arrangements ==
    {rq \in [Bands -> {sq \in SeqsOf(Names) : NoRepeat(sq)}] :
        \A b1, b2 \in Bands : b1 # b2 => NodesOf(rq[b1]) \cap NodesOf(rq[b2]) = {}}

PQInitAny ==
    /\ ready_queues \in Arrangements
    /\ fairness_ratio \in Ratios
    /\ pq_result = <<"none">>
    /\ pq_head = <<>>
    /\ pq_counts = [b \in Bands |-> 0]
    /\ pq_calls = 0
    /\ pq_round = 0

InitPQFair == PQInitAny /\ EdgeIdle /\ RunIdle /\ HndIdle /\ RpIdle /\ ObsIdle
PQFairNext == PQService /\ UNCHANGED other_than_pq
SpecPQFair == InitPQFair /\ [][PQFairNext]_vars /\ WF_vars(PQFairNext)

\* The callers' loop again, with the picks of every name counted
InitPQCount == PQInitAny /\ EdgeIdle /\ RunIdle /\ HndIdle /\ RpIdle /\ ObsIdle
PQCountNext ==
    PQService /\ CountPick /\ UNCHANGED <<edge_vars, log_vars, run_vars, ctl_vars, hnd_vars, rp_vars>>
SpecPQCount == InitPQCount /\ [][PQCountNext]_vars

InitRun == RunInitWith(RunNodes) /\ CtlInit /\ EdgeIdle /\ PQIdle /\ HndIdle /\ RpIdle /\ ObsIdle
RunNext ==
    \/ RunEnter /\ UNCHANGED other_than_run
    \/ Build /\ UNCHANGED other_than_run
    \/ StartAny /\ UNCHANGED other_than_run
    \/ Poll /\ UNCHANGED other_than_run
    \/ Iterate /\ UNCHANGED other_than_run
    \/ ServiceAny /\ UNCHANGED other_than_run
    \/ StopAny /\ UNCHANGED other_than_run
    \/ RunExit /\ UNCHANGED other_than_run
    \/ Shutdown /\ UNCHANGED other_than_run
    \/ IntervalElapsesAny /\ UNCHANGED other_than_run
    \/ TimeoutElapses /\ UNCHANGED other_than_run
SpecRun == InitRun /\ [][RunNext]_vars

\* The thread that executes run() is never suspended for ever; nothing is
\* assumed of the other threads and of the passing of time
\* One run() of a scheduler of two nodes, and a second call of run() made
\* while the first is under way
InitRunAgain == RunInitWith(FairNodes) /\ CtlInit /\ EdgeIdle /\ PQIdle /\ HndIdle /\ RpIdle /\ ObsIdle
RunAgainNext ==
    \/ RunEnter /\ UNCHANGED other_than_run
    \/ Build /\ UNCHANGED other_than_run
    \/ StartAny /\ UNCHANGED other_than_run
    \/ Poll /\ UNCHANGED other_than_run
    \/ Iterate /\ UNCHANGED other_than_run
    \/ ServiceAny /\ UNCHANGED other_than_run
    \/ StopAny /\ UNCHANGED other_than_run
    \/ RunExit /\ UNCHANGED other_than_run
    \/ Shutdown /\ UNCHANGED other_than_run
    \/ IntervalElapsesAny /\ UNCHANGED other_than_run
    \/ TimeoutElapses /\ UNCHANGED other_than_run
    \/ RunAgain /\ UNCHANGED <<edge_vars, log_vars, pq_vars, reg_result,
                              pending_priorities, knob_calls, knob_result, hnd_vars, rp_vars, obs_vars>>
SpecRunAgain == InitRunAgain /\ [][RunAgainNext]_vars

\* One run() of a scheduler of two nodes, and register() called at any time
InitRegister == RunInitWith(FairNodes) /\ CtlInit /\ EdgeIdle /\ PQIdle /\ HndIdle /\ RpIdle /\ ObsIdle
RegisterNext ==
    \/ RunEnter /\ UNCHANGED other_than_run
    \/ Build /\ UNCHANGED other_than_run
    \/ StartAny /\ UNCHANGED other_than_run
    \/ Poll /\ UNCHANGED other_than_run
    \/ Iterate /\ UNCHANGED other_than_run
    \/ ServiceAny /\ UNCHANGED other_than_run
    \/ StopAny /\ UNCHANGED other_than_run
    \/ RunExit /\ UNCHANGED other_than_run
    \/ Shutdown /\ UNCHANGED other_than_run
    \/ IntervalElapsesAny /\ UNCHANGED other_than_run
    \/ TimeoutElapses /\ UNCHANGED other_than_run
    \/ RegisterAny /\ UNCHANGED <<edge_vars, log_vars, pq_vars, extra_run,
                                 pending_priorities, knob_calls, knob_result, hnd_vars, rp_vars, obs_vars>>
SpecRegister == InitRegister /\ [][RegisterNext]_vars

\* One run() of a scheduler of two nodes, and the runtime knobs turned at
\* any time by other threads
InitKnobs == RunInitWith(FairNodes) /\ CtlIdle /\ EdgeIdle /\ PQIdle /\ HndIdle /\ RpIdle /\ ObsIdle
KnobsNext ==
    \/ RunEnter /\ UNCHANGED other_than_run
    \/ Build /\ UNCHANGED other_than_run
    \/ StartAny /\ UNCHANGED other_than_run
    \/ Poll /\ UNCHANGED other_than_run
    \/ Iterate /\ UNCHANGED other_than_run
    \/ ServiceAny /\ UNCHANGED other_than_run
    \/ StopAny /\ UNCHANGED other_than_run
    \/ RunExit /\ UNCHANGED other_than_run
    \/ Shutdown /\ UNCHANGED other_than_run
    \/ IntervalElapsesAny /\ UNCHANGED other_than_run
    \/ TimeoutElapses /\ UNCHANGED other_than_run
    \/ SetPriorityAny /\ UNCHANGED <<edge_vars, log_vars, pq_vars, extra_run, reg_result, hnd_vars, rp_vars, obs_vars>>
    \/ SetCapacityAny /\ UNCHANGED <<edge_vars, log_vars, pq_vars, extra_run, reg_result, hnd_vars, rp_vars, obs_vars>>
SpecKnobs == InitKnobs /\ [][KnobsNext]_vars

\* One run() of a scheduler of two nodes, and emit() called on its nodes at
\* any time from outside the handlers
InitNodeEmit == RunInitWith(FairNodes) /\ CtlIdle /\ EdgeIdle /\ PQIdle /\ HndIdle /\ RpIdle /\ ObsIdle
NodeEmitNext ==
    \/ RunEnter /\ UNCHANGED other_than_run
    \/ Build /\ UNCHANGED other_than_run
    \/ StartAny /\ UNCHANGED other_than_run
    \/ Poll /\ UNCHANGED other_than_run
    \/ Iterate /\ UNCHANGED other_than_run
    \/ ServiceAny /\ UNCHANGED other_than_run
    \/ StopAny /\ UNCHANGED other_than_run
    \/ RunExit /\ UNCHANGED other_than_run
    \/ Shutdown /\ UNCHANGED other_than_run
    \/ IntervalElapsesAny /\ UNCHANGED other_than_run
    \/ TimeoutElapses /\ UNCHANGED other_than_run
    \/ NodeEmitAny /\ UNCHANGED other_than_run
SpecNodeEmit == InitNodeEmit /\ [][NodeEmitNext]_vars

\* One node serviced over and over, each handler emitting or not on a port
\* with two outgoing edges, and the consumers taking messages from those edges
InitHandler == HndInit /\ EdgeIdle /\ PQIdle /\ RunIdle /\ RpIdle /\ ObsIdle
HandlerNext ==
    \/ ProcessNodeAny /\ UNCHANGED other_than_hnd
    \/ OutEdgeGetAny /\ UNCHANGED other_than_hnd
SpecHandler == InitHandler /\ [][HandlerNext]_vars

\* One node with two input edges: messages come and go, the bands are set at
\* run time, and the scheduler updates the readiness and asks for the priority
InitReadiness == RpIdle /\ EdgeIdle /\ PQIdle /\ RunIdle /\ HndIdle /\ ObsIdle
ReadinessNext ==
    \/ InputPutAny /\ UNCHANGED other_than_rp
    \/ InputGetAny /\ UNCHANGED other_than_rp
    \/ SetEdgePriorityAny /\ UNCHANGED other_than_rp
    \/ UpdateReadiness /\ UNCHANGED other_than_rp
    \/ GetNodePriority /\ UNCHANGED other_than_rp
SpecReadiness == InitReadiness /\ [][ReadinessNext]_vars

\* One run() of a scheduler of two nodes whose thread is never suspended for ever
InitRunFair == RunInitWith(FairNodes) /\ CtlIdle /\ EdgeIdle /\ PQIdle /\ HndIdle /\ RpIdle /\ ObsIdle
SpecRunFair ==
    InitRunFair /\ [][RunNext]_vars /\ WF_vars(RunThread /\ UNCHANGED other_than_run)

-----------------------------------------------------------------------------
(* Claims                                                                  *)

\* C1: on an edge whose capacity is held fixed, after every try_put (under
\* any policy) and every try_get the depth is at least 0 and at most capacity.
C1_DepthWithinCapacity == 0 <= depth /\ depth <= capacity

\* C1 witness: a full edge of capacity 2 or more that has just replaced its tail
C1_Witness == depth = capacity /\ capacity >= 2 /\ put_result = "REPLACED"

\* C2: once set_capacity has been called on the running scheduler, the depth
\* of the edge stays between 0 and its capacity, whatever n > 0 was given.
C2_DepthWithinCapacityAfterSetCapacity ==
    cap_result # "none" => (0 <= Len(q) /\ Len(q) <= capacity)

\* C3: when the Control queue is non-empty at a get_next_runnable call, the
\* call returns the head of the Control queue in the Control band, for every
\* fairness_ratio.
C3_ControlPreempts ==
    pq_head # <<>> => pq_result = <<pq_head[1], CONTROL>>

\* C4: a node enqueued in the High or Normal band is eventually returned by
\* get_next_runnable when the callers keep servicing (fairness weights with a
\* positive sum, so that the call returns).
C4_NoStarvation ==
    \A n \in Names :
        ((InSeq(n, ready_queues[HIGH]) \/ InSeq(n, ready_queues[NORMAL]))
            /\ fairness_ratio[1] + fairness_ratio[2] + fairness_ratio[3] > 0)
        ~> (pq_result[1] = n)

\* C5: over consecutive servicings that all found the three bands non-empty,
\* Control was picked at least as often as High, and High at least as often
\* as Normal.
C5_PickCountsOrdered ==
    pq_counts[CONTROL] >= pq_counts[HIGH] /\ pq_counts[HIGH] >= pq_counts[NORMAL]

\* C5 witness: a window of three servicings with all bands non-empty
C5_Witness == pq_calls >= 3 /\ pq_counts[CONTROL] >= 3 /\ AllBandsNonEmpty(ready_queues)

StopCount(n) == Cardinality({i \in 1 .. Len(stopped) : stopped[i] = n})
BuildOk == Len(plan_nodes) = Len(registered)

\* C6: in every run(), no on_message, on_tick or on_stop is invoked before
\* on_start has been invoked on every node, no node has on_stop invoked twice,
\* and when run() has ended every node has had on_stop invoked exactly once.
C6_StartFirstStopOnce ==
    /\ (pc = "service" \/ stopped # <<>>) => NodesOf(plan_nodes) \subseteq NodesOf(started)
    /\ \A n \in RunNodes : StopCount(n) <= 1
    /\ run_outcome # "none" => \A n \in NodesOf(plan_nodes) : StopCount(n) = 1

\* C7: on_stop is invoked on the nodes in the reverse of their insertion
\* order, whether or not some on_stop raises, and on all of them by the time
\* run() has ended.
C7_StopInReverseOrder ==
    /\ Len(stopped) <= Len(plan_nodes)
    /\ \A i \in 1 .. Len(stopped) : stopped[i] = plan_nodes[Len(plan_nodes) + 1 - i]
    /\ pc = "done" => Len(stopped) = Len(plan_nodes)

\* C7 witness: run() has ended with three nodes, an on_stop having raised
C7_Witness ==
    /\ pc = "done"
    /\ Len(stopped) = 3
    /\ "on_stop" \in hook_raised

\* C8: an exception raised by a hook of one node never leaves run() and never
\* keeps the other nodes from being started, serviced when they are ready, and
\* stopped. For the servicing: a node whose tick is due is eventually selected
\* (or the loop is left), in every run in which, from some point on, no other
\* node's tick interval elapses again.
C8_ErrorIsolation ==
    /\ [](run_outcome = "raised" => ~BuildOk)
    /\ [](pc \in LoopPcs => NodesOf(plan_nodes) \subseteq NodesOf(started))
    /\ [](pc = "done" => \A n \in NodesOf(plan_nodes) : StopCount(n) = 1)
    /\ \A b \in FairNodes :
          (<>[](\A a \in FairNodes \ {b} : tick_state[a] # "elapsed"))
          => []((pc \in LoopPcs /\ tick_state[b] # "no")
                   => <>((pc = "service" /\ selected = <<b>>) \/ pc \notin LoopPcs))

\* C9: once shutdown() has been called while run() is in its main loop, the
\* loop is left, on_stop is invoked on every node, run() returns and
\* is_running() is false.
C9_ShutdownEndsRun ==
    (shutdown /\ pc \in LoopPcs)
        ~> (/\ pc = "done"
            /\ run_outcome = "returned"
            /\ ~running
            /\ \A n \in NodesOf(plan_nodes) : StopCount(n) = 1)

\* C9 witness: run() has returned after its loop saw the shutdown flag
C9_Witness == pc = "done" /\ loop_exit = "shutdown" /\ Len(stopped) = 2 /\ ~running

NoneReady == \A n \in NodesOf(plan_nodes) : inbox[n] = 0 /\ tick_state[n] = "no"

C13_BlockFrame ==
    [][\A item \in Items \cup {BadItem}, fn \in MergeFns :
          (TryPut(item, "Block", fn) /\ validate(edge_spec, item))
          => IF Len(q) >= capacity
             THEN /\ put_result' = "BLOCKED"
                  /\ q' = q
                  /\ enq_total' = enq_total
                  /\ drops_total' = drops_total
             ELSE /\ put_result' = "OK"
                  /\ q' = Append(q, item)
                  /\ enq_total' = enq_total + 1
                  /\ drops_total' = drops_total]_vars

\* C13 witness: a put has just been refused on a full edge of capacity 2 or more
C13_Witness ==
    /\ put_result = "BLOCKED"
    /\ capacity >= 2
    /\ depth = capacity
    /\ enq_total = capacity
    /\ edge_ops = MaxOps

\* C14: a try_put under Drop of an item the spec accepts, on an edge at
\* capacity, returns Dropped, leaves the queue as it was and adds exactly 1 to
\* the drops counter; no other call changes the drops counter.
C14_DropCounts ==
    [][/\ \A item \in Items \cup {BadItem}, fn \in MergeFns :
             (TryPut(item, "Drop", fn) /\ validate(edge_spec, item) /\ Len(q) >= capacity)
             => /\ put_result' = "DROPPED"
                /\ q' = q
                /\ drops_total' = drops_total + 1
                /\ enq_total' = enq_total
       /\ \A item \in Items \cup {BadItem}, policy \in Policies, fn \in MergeFns :
             (TryPut(item, policy, fn) /\ put_result' # "DROPPED")
             => drops_total' = drops_total
       /\ TryGet => drops_total' = drops_total]_vars

\* C14 witness: a put has just been dropped on a full edge of capacity 2 or more
C14_Witness ==
    /\ put_result = "DROPPED"
    /\ drops_total = 1
    /\ depth = capacity
    /\ capacity >= 2
    /\ enq_total = capacity
    /\ edge_ops = MaxOps

\* C15: a try_put of x under Latest, or with no policy given, of an item the
\* spec accepts, on an edge at capacity, returns Replaced and leaves the queue
\* as it was except for its last item, which is now x; on an edge of capacity
\* 1 the queue after every such put holds x alone.
C15_LatestReplacesTail ==
    [][\A item \in Items \cup {BadItem}, policy \in {"Latest", "None"}, fn \in MergeFns :
          (TryPut(item, policy, fn) /\ validate(edge_spec, item))
          => /\ Len(q) >= capacity
                => /\ put_result' = "REPLACED"
                   /\ Len(q') = Len(q)
                   /\ q' = [q EXCEPT ![Len(q)] = item]
             /\ capacity = 1 => q' = <<item>>]_vars

\* C15 witness: the last of three different items has just been replaced
C15_Witness ==
    /\ put_result = "REPLACED"
    /\ capacity = 3
    /\ edge_ops = MaxOps
    /\ depth = 3
    /\ q[1] # q[2]
    /\ q[2] # q[3]
    /\ q[1] # q[3]

\* The left fold of merge function fn over the items of a log of puts
RECURSIVE FoldLeft(_, _)
FoldLeft(fn, log) ==
    IF Len(log) = 1 THEN log[1].item
    ELSE merge(fn, FoldLeft(fn, Front(log)), log[Len(log)].item)

\* C16: a try_put of x under Coalesce(fn) on an edge at capacity returns
\* Coalesced and leaves the queue as it was except for its last item old, which
\* is now fn(old, x); and on an edge of capacity 1 a stream of such puts leaves
\* one item, the left fold of fn over the stream.
C16_CoalesceFoldsTail ==
    /\ [][\A item \in Items, fn \in MergeFns \ {"raise"} :
             (TryPut(item, "Coalesce", fn) /\ Len(q) >= capacity)
             => /\ put_result' = "COALESCED"
                /\ q' = [q EXCEPT ![Len(q)] = merge(fn, q[Len(q)], item)]]_vars
    /\ []((capacity = 1 /\ put_log # <<>>) => q = <<FoldLeft(put_log[1].fn, put_log)>>)

\* C16 witness: four items folded into one on an edge of capacity 1 by a merge
\* function that is not commutative
C16_Witness ==
    /\ capacity = 1
    /\ Len(put_log) = 4
    /\ put_log[1].fn = "mix"
    /\ put_result = "COALESCED"
    /\ put_log[1].item # put_log[2].item
    /\ depth = 1

\* C17: when the merge function raises during a put under Coalesce on an edge
\* at capacity, try_put returns Coalesced and the queue is as it was except for
\* its last item, which is now the new item; the depth is unchanged.
C17_CoalesceFallback ==
    [][\A item \in Items :
          (TryPut(item, "Coalesce", "raise") /\ Len(q) >= capacity)
          => /\ put_result' = "COALESCED"
             /\ Len(q') = Len(q)
             /\ q' = [q EXCEPT ![Len(q)] = item]]_vars

\* C18: a try_put of an item that is no instance of the schema of the edge's
\* spec raises TypeError and leaves the queue and both counters as they were,
\* under every policy and at every fill level.
C18_RejectedPutChangesNothing ==
    [][\A item \in Items \cup {BadItem}, policy \in Policies, fn \in MergeFns :
          (TryPut(item, policy, fn) /\ edge_spec # "None" /\ item \notin Items)
          => /\ put_result' = "TypeError"
             /\ q' = q
             /\ enq_total' = enq_total
             /\ drops_total' = drops_total]_vars

\* C18 witness: a put has just been rejected by the spec of a full edge
C18_Witness ==
    /\ put_result = "TypeError"
    /\ edge_spec = "int"
    /\ capacity >= 2
    /\ depth = capacity
    /\ enq_total = capacity

ItemsOf(log) == [i \in 1 .. Len(log) |-> log[i].item]

\* C12: on an edge that only receives Block and Drop puts, the items returned
\* by try_get so far, followed by the items still queued, are the items whose
\* try_put returned Ok, in the order of those puts.
C12_FifoUnderBlockAndDrop == get_log \o q = ItemsOf(put_log)

\* C12 witness: two different accepted items have been returned in the order
\* of their puts, after a third put was refused on the full edge
C12_Witness ==
    /\ Len(get_log) = 2
    /\ get_log[1] # get_log[2]
    /\ Len(put_log) = 2
    /\ put_result = "BLOCKED"
    /\ edge_ops = 5

\* C19: on an edge with a spec, a try_put of a Message whose payload is an
\* instance of the schema is accepted (no TypeError, and the Message is appended
\* when there is room), and one whose payload is not raises TypeError and
\* leaves the queue as it was.
C19_SpecChecksPayload ==
    [][\A type \in {"DATA", "CONTROL", "ERROR"}, payload \in Items \cup {BadItem},
          policy \in Policies \ {"Coalesce"} :
          (TryPut(Message(type, payload), policy, "add") /\ edge_spec # "None")
          => IF payload \in Items
             THEN /\ put_result' # "TypeError"
                  /\ Len(q) < capacity => q' = Append(q, Message(type, payload))
             ELSE /\ put_result' = "TypeError"
                  /\ q' = q]_vars

\* C20: on the scheduler's emit path a Control message is put with the Block
\* policy and a Data or Error message with the default (Latest) policy:
\* emitting Control onto a full edge leaves the edge's queue as it was, and
\* emitting Data or Error onto a full edge replaces the tail item and nothing
\* else.
C20_EmitPolicyByType ==
    [][\A type \in {"DATA", "CONTROL", "ERROR"} :
          (HandleNodeEmit(type) /\ Len(q) >= capacity)
          => IF type = "CONTROL"
             THEN /\ put_log'[Len(put_log')].policy = "Block"
                  /\ q' = q
             ELSE /\ put_log'[Len(put_log')].policy = "None"
                  /\ Len(q') = Len(q)
                  /\ q' = [q EXCEPT ![Len(q)] = Message(type, Len(put_log))]]_vars

C20_Witness ==
    /\ capacity >= 2
    /\ depth = capacity
    /\ \E i, j, k \in 1 .. Len(put_log) :
          /\ put_log[i].res = "BLOCKED" /\ type_of(put_log[i].item) = "CONTROL"
          /\ put_log[j].res = "REPLACED" /\ type_of(put_log[j].item) = "ERROR"
          /\ put_log[k].res = "REPLACED" /\ type_of(put_log[k].item) = "DATA"

\* s is a subsequence of t: the elements of s occur in t in the same order,
\* each at a place of its own
RECURSIVE IsSubseq(_, _)
IsSubseq(s, t) ==
    IF s = <<>> THEN TRUE
    ELSE IF t = <<>> THEN FALSE
    ELSE IF Head(s) = Head(t) THEN IsSubseq(Tail(s), Tail(t))
    ELSE IsSubseq(s, Tail(t))

\* C11: the sequence of messages handed to the consumer's on_message from an
\* edge is a subsequence of the sequence the producer emitted on that edge, in
\* emission order and with no message delivered twice, whatever the
\* interleaving of emissions, servicings and overflow outcomes.
C11_DeliveredSubsequenceOfEmitted == IsSubseq(get_log, ItemsOf(put_log))

\* The i-th emission on the edge returned Blocked
EmitBlocked(i) == i <= Len(put_log) /\ put_log[i].res = "BLOCKED"

\* The message of the i-th emission was handed to the consumer
EmitDelivered(i) ==
    /\ i <= Len(put_log)
    /\ \E j \in 1 .. Len(get_log) : payload_of(get_log[j]) = put_log[i].item

\* C21: a message whose emit returned Blocked is not lost: the put is retried
\* on the producer's behalf, so that the message is enqueued once the consumer
\* has dequeued and is delivered to the consumer in the end.
C21_BlockedEmitIsDelivered ==
    \A i \in 1 .. MaxOps : [](EmitBlocked(i) => <>EmitDelivered(i))

\* Some node name is registered twice
DuplicateName == Cardinality(NodesOf(registered)) < Len(registered)

\* C22: if the registered subgraphs contain a duplicate node name, run()
\* raises, and no node's on_start is invoked before it does.
C22_DuplicateNameFailsBeforeStart ==
    DuplicateName =>
        /\ started = <<>>
        /\ pc \notin {"start"} \cup LoopPcs
        /\ run_outcome # "returned"
        /\ pc = "done" => run_outcome = "raised"

C22_Witness ==
    /\ DuplicateName
    /\ Len(registered) = 3
    /\ registered[1] # registered[2]
    /\ pc = "done"
    /\ run_outcome = "raised"

C24_StopOnlyAfterStart == NodesOf(stopped) \subseteq NodesOf(started)

StartCount(n) == Cardinality({i \in 1 .. Len(started) : started[i] = n})

\* C25: run() is not re-entrant: a run() called again while the scheduler is
\* running returns without effect (it changes nothing of the scheduler's
\* state), it never gets past the test at the entry, so that one main loop at
\* most is active, and each node's on_start is invoked at most once.
C25_RunNotReentrant ==
    /\ [](extra_run # "entered")
    /\ [](\A n \in RunNodes : StartCount(n) <= 1)
    /\ [][RunAgain => UNCHANGED run_vars]_vars

C25_Witness ==
    /\ extra_run = "returned"
    /\ pc = "service"
    /\ running
    /\ Len(started) = 2

\* C26: register() called while the scheduler is running raises, leaves the
\* list of registered graphs and the built plan as they were, and does not
\* touch the running loop.
C26_RegisterWhileRunningRefused ==
    [][\A n \in FairNodes :
          (Register(n) /\ running)
          => /\ reg_result' = "RuntimeError"
             /\ registered' = registered
             /\ plan_nodes' = plan_nodes
             /\ UNCHANGED run_vars]_vars

C26_Witness ==
    /\ reg_result = "RuntimeError"
    /\ pc = "iterate"
    /\ running
    /\ Len(registered) = 2
    /\ plan_nodes = registered

\* C27: a set_priority(edge_id, band) call for an edge of a registered
\* subgraph is never lost, whether it is made before run(), while run() is
\* building the plan, or during the main loop: when the call returns, the
\* edge's band in the plan is the requested band if the plan is built, and
\* else the request is queued in the pending priorities, which the build applies.
C27_SetPriorityNeverLost ==
    [][\A e \in FairNodes, band \in RequestBands :
          (/\ SchedSetPriority(e, band)
           /\ pc # "done"
           /\ ~DuplicateName
           /\ e \in edges_of(registered))
          => IF e \in plan_edges
             THEN edge_band'[e] = band
             ELSE pending_priorities'[e] = band]_vars

\* C28: while the scheduler is running, a set_priority, or a set_capacity
\* with a positive capacity, for an edge id that is not in the plan does not
\* raise (it returns after a warning), changes no edge's band or capacity, and
\* leaves the main loop as it was.
C28_UnknownEdgeIgnored ==
    /\ [][\A e \in FairNodes, band \in RequestBands :
             (SchedSetPriority(e, band) /\ running /\ e \notin plan_edges)
             => /\ knob_result' = "edge_not_found"
                /\ UNCHANGED <<run_vars, pending_priorities>>]_vars
    /\ [][\A e \in FairNodes, n \in 1 .. MaxInbox :
             (SchedSetCapacity(e, n) /\ running /\ e \notin plan_edges)
             => /\ knob_result' = "edge_not_found"
                /\ UNCHANGED <<run_vars, pending_priorities>>]_vars

C28_Witness ==
    /\ knob_result = "edge_not_found"
    /\ pc = "service"
    /\ plan_nodes = <<"A", "B">>
    /\ knob_calls = 1
    /\ ~shutdown

\* C29: two successive on_tick invocations on a node are at least
\* tick_interval_ms apart: once on_tick has been invoked on a node, whether it
\* returned or raised, the node is not tick-ready again until the interval has
\* elapsed.
C29_TickIntervalKept ==
    [][\A o \in Outcomes, e \in BOOLEAN, k \in {"DATA", "CONTROL"} :
          (/\ Service(o, e, k)
           /\ ~ready_state.message_ready
           /\ ready_state.tick_ready)
          => ~update_readiness(plan_nodes', inbox', tick_state')[selected[1]].tick_ready]_vars

\* C30: a node's scheduler back-reference is set only while the scheduler is
\* running and is cleared on stop: after run() has returned no node is
\* attached, and emit() on any of the scheduler's nodes enqueues nothing on
\* any edge.
C30_NoEmitRouteAfterRun ==
    [][\A n \in FairNodes, k \in {"DATA", "CONTROL"} :
          (NodeEmit(n, k) /\ pc = "done") => (attached = {} /\ inbox' = inbox)]_vars


-----------------------------------------------------------------------------
\* C31: when an emit made inside a handler reaches an edge whose spec rejects
\* the message (a typed edge, a payload that is no instance of the type),
\* nothing is enqueued on that edge, the emitting node's error counter goes up
\* by exactly one for that handler invocation, and the processor returns to the
\* main loop instead of letting the exception through.
C31_RejectedEmitChargedToNode ==
    [][\A type \in {"DATA", "CONTROL", "ERROR"}, outcome \in Outcomes :
          (/\ ProcessNode(TRUE, Message(type, BadItem), outcome)
           /\ \E i \in 1 .. Len(tried') : out_spec[tried'[i].edge] = "int")
          => /\ \A i \in 1 .. Len(tried') :
                   out_spec[tried'[i].edge] = "int"
                   => out_q'[tried'[i].edge] = out_q[tried'[i].edge]
             /\ error_count' = error_count + 1
             /\ hnd_result' = "False"]_vars

C31_Witness ==
    /\ tried = <<[edge |-> "e1", res |-> "TypeError"]>>
    /\ out_spec["e1"] = "int"
    /\ out_q["e1"] = <<>>
    /\ hnd_calls = 1
    /\ error_count = 1
    /\ hnd_result = "False"


-----------------------------------------------------------------------------
\* C32: whenever a try_put made by an emit returned Blocked, the id of that
\* edge is in the emitting node's ready_state.blocked_edges.
C32_BlockedEdgeRecorded ==
    \A i \in 1 .. Len(tried) :
        tried[i].res = "BLOCKED" => tried[i].edge \in blocked_edges


-----------------------------------------------------------------------------
\* C33: after update_readiness a node is message_ready iff at least one of its
\* input edges has depth > 0, and get_node_priority then returns the highest
\* band (Control > High > Normal) among exactly the input edges that hold a
\* message, or Normal when the node is not message-ready: the band of an empty
\* input edge never raises the node's priority.
NonEmptyInputs == {p \in InPorts : in_depth[p] > 0}

C33_PriorityFromNonEmptyInputs ==
    /\ [][UpdateReadiness => (rp_ready' <=> NonEmptyInputs # {})]_vars
    /\ [][(GetNodePriority /\ (rp_ready <=> NonEmptyInputs # {}))
          => IF NonEmptyInputs # {}
             THEN /\ \E p \in NonEmptyInputs : rp_priority' = in_band[p]
                  /\ \A p \in NonEmptyInputs :
                        BandIndex(rp_priority') <= BandIndex(in_band[p])
             ELSE rp_priority' = NORMAL]_vars

C33_Witness ==
    /\ rp_ready
    /\ in_depth["i"] > 0 /\ in_band["i"] = HIGH
    /\ in_depth["i2"] = 0 /\ in_band["i2"] = CONTROL
    /\ rp_priority = HIGH


-----------------------------------------------------------------------------
\* C34: after any sequence of enqueue_runnable and get_next_runnable calls
\* every node name occurs at most once across the three band queues taken
\* together; enqueuing a name that is queued under another band moves it to
\* the tail of the new band instead of duplicating it.
Occurrences(n) ==
    Cardinality(UNION {{<<b, i>> : i \in {j \in 1 .. Len(ready_queues[b]) :
                                              ready_queues[b][j] = n}} : b \in Bands})

C34_NameQueuedAtMostOnce ==
    /\ [](\A n \in Names : Occurrences(n) <= 1)
    /\ [][\A n \in Names, b \in Bands :
            PQEnqueue(n, b)
            => /\ ready_queues'[b] # <<>>
               /\ ready_queues'[b][Len(ready_queues'[b])] = n
               /\ \A c \in Bands \ {b} : ~InSeq(n, ready_queues'[c])]_vars

C34_Witness ==
    /\ ready_queues[CONTROL] = <<>>
    /\ ready_queues[HIGH] = <<"n2", "n1">>
    /\ ready_queues[NORMAL] = <<"n3">>


-----------------------------------------------------------------------------
\* C35: within one band get_next_runnable returns the names in the order of
\* their most recent enqueue: a pick from a band is the head of that band's
\* queue, and the re-enqueued name goes behind every name queued there. When
\* every picked name is at once re-enqueued in its band and the other bands are
\* empty, the names are serviced round-robin: at any point their pick counts
\* differ by at most one.
SingleBand == Cardinality({b \in Bands : ready_queues[b] # <<>>}) = 1

C35_RoundRobinWithinBand ==
    /\ [](SingleBand => \A n, m \in Queued(ready_queues) :
                            pick_skew[n] - pick_skew[m] <= 1)
    /\ [][(PQService /\ IsPick(pq_result'))
          => LET b == pq_result'[2]
             IN  /\ pq_result'[1] = Head(ready_queues[b])
                 /\ ready_queues'[b] = Append(Tail(ready_queues[b]), pq_result'[1])]_vars

C35_Witness ==
    /\ ready_queues[CONTROL] = <<>>
    /\ ready_queues[NORMAL] = <<>>
    /\ ready_queues[HIGH] = <<"n2", "n3", "n1">>
    /\ pick_skew = [n \in Names |-> IF n = "n1" THEN 1 ELSE 0]
    /\ pq_result = <<"n1", HIGH>>


-----------------------------------------------------------------------------
\* C36: get_next_runnable returns None only when all three band queues are
\* empty; whenever the ratio check selects no band while some band is not
\* empty, it returns the head of the highest-priority non-empty band and
\* removes exactly that entry.
RatioCheckSelects(rq, ratio, b) ==
    LET total_ratio == ratio[1] + ratio[2] + ratio[3]
        current_tick == Len(rq[CONTROL]) + Len(rq[HIGH]) + Len(rq[NORMAL])
    IN  /\ rq[b] # <<>>
        /\ total_ratio > 0
        /\ (current_tick % total_ratio) < ratio[BandIndex(b)]

HighestNonEmpty(rq) ==
    BandOrder[Least({BandIndex(b) : b \in {c \in Bands : rq[c] # <<>>}})]

C36_FallbackToHighestNonEmpty ==
    [][PQGetNext
       => /\ pq_result' = <<"None">> => \A b \in Bands : ready_queues[b] = <<>>
          /\ (/\ \E b \in Bands : ready_queues[b] # <<>>
              /\ \A b \in Bands : ~RatioCheckSelects(ready_queues, fairness_ratio, b))
             => LET hb == HighestNonEmpty(ready_queues)
                IN  /\ pq_result' = <<Head(ready_queues[hb]), hb>>
                    /\ ready_queues' = [ready_queues EXCEPT ![hb] = Tail(@)]]_vars


-----------------------------------------------------------------------------
\* C37: the message handed to the consumer's on_message is a message that was
\* emitted on the edge: its kind (Data, Control or Error) and its payload are
\* those of an emitted message, whatever the priority band of the edge when it
\* is dequeued.
C37_HandedMessageIsEmittedMessage ==
    \A i \in 1 .. Len(get_log) :
        \E j \in 1 .. Len(put_log) :
            /\ type_of(get_log[i]) = type_of(put_log[j].item)
            /\ payload_of(get_log[i]) = payload_of(put_log[j].item)


-----------------------------------------------------------------------------
\* C38: in the main loop no ready node starves behind another node of the same
\* band: if the loop keeps iterating and, at every iteration, the nodes of the
\* plan are all ready with the same effective band, then each of them is
\* serviced infinitely often, whatever their insertion order in the plan. Only
\* the behaviours in which no on_tick raises are looked at here.
NodeReady(n) == inbox[n] > 0 \/ tick_state[n] # "no"
EffectiveBand(n) == IF inbox[n] > 0 THEN edge_band[n] ELSE NORMAL
AllStayReady ==
    [](pc = "iterate"
       => \A n, m \in NodesOf(plan_nodes) :
             NodeReady(n) /\ EffectiveBand(n) = EffectiveBand(m))
NoTickRaises == [](\A n \in RunNodes : tick_state[n] # "stale")

C38_NoStarvationWithinBand ==
    \A n \in FairNodes :
        (AllStayReady /\ NoTickRaises /\ []<>(pc = "iterate" /\ n \in NodesOf(plan_nodes)))
        => []<>(pc = "service" /\ selected = <<n>>)


-----------------------------------------------------------------------------
\* C39: a shutdown request is never lost: when shutdown() has been called on
\* the scheduler before run() reaches its first poll of the flag, be it before
\* run() has initialised its state, run() leaves its loop, stops its nodes and
\* returns without another shutdown() call.
C39_EarlyShutdownHonoured ==
    (shutdown /\ pc \in {"idle", "build", "start"}) ~> (pc = "done")


-----------------------------------------------------------------------------
\* C40: an emit on an output port with several outgoing edges attempts exactly
\* one put on every one of them: a Blocked, Dropped or type-error outcome on
\* one edge does not keep the message from being put on the port's other edges.
C40_EmitTriesEveryOutgoingEdge ==
    [][\A type \in {"DATA", "CONTROL", "ERROR"}, payload \in Payloads,
          outcome \in Outcomes :
          ProcessNode(TRUE, Message(type, payload), outcome)
          => \A e \in OutEdgeIds :
                Cardinality({i \in 1 .. Len(tried') : tried'[i].edge = e}) = 1]_vars

====
